---- MODULE Spec2Model ----
(***************************************************************************)
(* SysAid analytics backend (src/server.js): the process-wide token cache, *)
(* the Connect helper, the express route table and the route handlers,     *)
(* with the aggregation helpers as operators.                              *)
(*                                                                         *)
(* A step is one turn of the event loop: an incoming request or upstream   *)
(* response, with the promise continuations it runs, up to the next wait   *)
(* for the upstream.                                                       *)
(***************************************************************************)
EXTENDS Integers, Sequences, FiniteSets, TLC

(* ------------------------------------------------------------------ *)
(* Bounds of the model                                                 *)
(* ------------------------------------------------------------------ *)
MaxReq == 2        \* HTTP requests received
MaxCalls == 3      \* callConnect invocations over all requests
MaxTicks == 1      \* clock advances
TickMs == 50000    \* milliseconds per clock advance
StartMs == 300000  \* Date.now() when the process starts
MaxLen == 3        \* length of a record list given to an aggregator
MaxRankingLen == 7   \* length of a record list given to the rankings
MaxHandlerLen == 2   \* length of a record list a handler's computation is given
StartDays == 20      \* Date.now(), in days, when a handler's computation is checked
MaxPriorityLen == 4  \* length of a record list given to processPriorityDistribution

(* ------------------------------------------------------------------ *)
(* Program constants                                                   *)
(* ------------------------------------------------------------------ *)
MarginSec == 300   \* (response.data.expiresIn - 300)
MsPerSec == 1000   \* ... * 1000
ClosedStatus == 34 \* r.status !== 34
TopAdministrators == 4  \* .slice(0, 4)
TopEndUsers == 5  \* .slice(0, 5)
NotFoundStatus == 404
ErrorStatus == 500
OkStatus == 200

\* upstream-reported lifetimes (seconds), around the 300 s margin
Lifetimes == {300, 400}

VARIABLES
    now,         \* Date.now()
    tokenCache,  \* let tokenCache = { token, expiresAt }
    calls,       \* callConnect invocations: position and locals
    reqs,        \* HTTP requests being handled: path, handler, calls started
    sent,        \* the HTTP response the last step sent, if it sent one
    wire,        \* the upstream requests the last step sent
    lastAcq,     \* the acquisition response that wrote tokenCache last
    records,     \* aggregator input: a list of ticket records
    status,      \* aggregator input: the status query parameter
    agents,      \* aggregator input: agents.data, the agent directory
    endUsers,    \* aggregator input: endUsers.data, the end-user directory
    out          \* aggregator output

serverVars == <<now, tokenCache, calls, reqs, sent, wire, lastAcq>>
inputVars == <<records, status, agents, endUsers>>
aggVars == <<records, status, agents, endUsers, out>>
vars == <<now, tokenCache, calls, reqs, sent, wire, lastAcq,
          records, status, agents, endUsers, out>>

CallIds == 1..MaxCalls
ReqIds == 1..MaxReq

(* ------------------------------------------------------------------ *)
(* JavaScript values                                                   *)
(* ------------------------------------------------------------------ *)
NullToken == 0       \* tokenCache.token === null (a token is named by the
                     \* callConnect invocation whose POST it answers: 1, 2, ...)
NullExpiry == -1     \* tokenCache.expiresAt === null
Undefined == "undefined"

\* ToNumber(null) is 0 in a relational comparison
ToNumber(v) == IF v = NullExpiry THEN 0 ELSE v

\* a truthy token: a non-null string
Truthy(tok) == tok # NullToken

(* ------------------------------------------------------------------ *)
(* Token cache                                                         *)
(* ------------------------------------------------------------------ *)
\* variants of the expiry test: the comparison turned round, and a token
\* still served at the expiry instant
CacheFresh_Inverted(cache, t) ==
    Truthy(cache.token) /\ t > ToNumber(cache.expiresAt)
CacheFresh_AtExpiry(cache, t) ==
    Truthy(cache.token) /\ t <= ToNumber(cache.expiresAt)

\* tokenCache.token && Date.now() < tokenCache.expiresAt
CacheFresh(cache, t) == Truthy(cache.token) /\ t < ToNumber(cache.expiresAt)

\* variant: the safety margin left out
ExpiresAt_NoMargin(t, expiresIn) == t + expiresIn * MsPerSec

\* Date.now() + (response.data.expiresIn - 300) * 1000
ExpiresAt(t, expiresIn) == t + (expiresIn - MarginSec) * MsPerSec

\* variant: a refresh writes the token and keeps an expiry already there
StoreToken_KeepsExpiry(cache, tok, t, expiresIn) ==
    [token |-> tok,
     expiresAt |-> IF cache.expiresAt = NullExpiry
                   THEN t + (expiresIn - MarginSec) * MsPerSec
                   ELSE cache.expiresAt]

\* variant: a refresh that finds a token in the cache keeps it
StoreToken_FirstWins(cache, tok, t, expiresIn) ==
    IF Truthy(cache.token) THEN cache
    ELSE [token |-> tok, expiresAt |-> t + (expiresIn - MarginSec) * MsPerSec]

\* tokenCache.token = response.data.token; tokenCache.expiresAt = ...
StoreToken(cache, tok, t, expiresIn) ==
    [token |-> tok, expiresAt |-> ExpiresAt(t, expiresIn)]

(* ------------------------------------------------------------------ *)
(* Errors and responses                                                *)
(* ------------------------------------------------------------------ *)
\* what axios rejects with: a transport error carries no response, a
\* non-2xx status carries the upstream's response body
NetworkError == [message |-> "Network Error"]
HttpError == [message |-> "Request failed with status code 500",
              response |-> [data |-> "upstream body"]]
Errors == {NetworkError, HttpError}

\* e.response?.data
ResponseData(e) ==
    IF "response" \in DOMAIN e THEN e.response.data ELSE Undefined

\* res.json(obj): JSON.stringify leaves out a property whose value is undefined
Json(obj) ==
    IF "details" \in DOMAIN obj /\ obj.details = Undefined
    THEN [k \in DOMAIN obj \ {"details"} |-> obj[k]]
    ELSE obj

\* the catch block of the analytics, tickets, action-items, weekly and
\* active handlers
ErrorEnvelope(e) ==
    [status |-> ErrorStatus,
     body |-> Json([success |-> FALSE, error |-> e.message,
                    details |-> ResponseData(e)])]

\* the catch block of the /api/connect/* handler
ConnectErrorEnvelope(e) ==
    [status |-> ErrorStatus,
     body |-> Json([success |-> FALSE, error |-> e.message])]

\* the step sent nothing
NoResponse == [path |-> <<>>, route |-> "none", status |-> 0,
               body |-> [none |-> TRUE]]

\* res.status(..).json(..) of the handler of request r
Send(r, response) ==
    [path |-> reqs[r].path, route |-> reqs[r].route,
     status |-> response.status, body |-> response.body]

(* ------------------------------------------------------------------ *)
(* Route table (express, in registration order)                        *)
(* ------------------------------------------------------------------ *)
Routes == <<
    [name |-> "health",      pattern |-> <<"api", "health">>],
    [name |-> "overview",    pattern |-> <<"api", "analytics", "overview">>],
    [name |-> "tickets",     pattern |-> <<"api", "tickets">>],
    [name |-> "actionItems", pattern |-> <<"api", "tickets", ":id", "action-items">>],
    [name |-> "weekly",      pattern |-> <<"api", "metrics", "weekly">>],
    [name |-> "active",      pattern |-> <<"api", "tickets", "active">>],
    [name |-> "connect",     pattern |-> <<"api", "connect", "*">>] >>

\* express path matching: a :param matches one segment, a trailing *
\* matches the rest of the path
Matches(pattern, path) ==
    LET n == Len(pattern)
        star == n > 0 /\ pattern[n] = "*"
        fixed == IF star THEN n - 1 ELSE n
    IN  /\ IF star THEN Len(path) >= n ELSE Len(path) = n
        /\ \A i \in 1..fixed : pattern[i] = ":id" \/ pattern[i] = path[i]

\* the first registered route that matches, or the framework's 404
Dispatch(path) ==
    LET hits == {i \in 1..Len(Routes) : Matches(Routes[i].pattern, path)}
    IN  IF hits = {} THEN "notFound"
        ELSE Routes[CHOOSE i \in hits : \A j \in hits : i <= j].name

\* the endpoints src/test-api.js requests (query strings do not take part
\* in routing)
TestEndpoints == {
    <<"api", "health">>,
    <<"api", "metrics", "weekly">>,
    <<"api", "tickets", "active">>,
    <<"api", "tickets", "detailed">>,
    <<"api", "tickets">> }

RequestPaths == TestEndpoints \cup {
    <<"api", "analytics", "overview">>,
    <<"api", "tickets", "7", "action-items">>,
    <<"api", "connect", "agents">> }

\* the handler each request path is routed to
RouteOf == [path \in RequestPaths |-> Dispatch(path)]

(* ------------------------------------------------------------------ *)
(* Initial state                                                       *)
(* ------------------------------------------------------------------ *)
\* a callConnect invocation: where it is (pc) and the request whose
\* handler started it
FreeCall == [pc |-> "free", req |-> 0]

\* a request not yet received; Answered is one whose response was sent
NewReq == [st |-> "new", path |-> <<>>, route |-> "none", calls |-> <<>>]
Answered == [st |-> "responded", path |-> <<>>, route |-> "none", calls |-> <<>>]

ServerInit ==
    /\ now = StartMs
    /\ tokenCache = [token |-> NullToken, expiresAt |-> NullExpiry]
    /\ calls = [c \in CallIds |-> FreeCall]
    /\ reqs = [r \in ReqIds |-> NewReq]
    /\ sent = NoResponse
    /\ wire = {}
    /\ lastAcq = [at |-> 0, expiresIn |-> 0, token |-> NullToken]

(* ------------------------------------------------------------------ *)
(* getAccessToken and callConnect                                      *)
(* ------------------------------------------------------------------ *)
\* getAccessToken() up to its await: the cached token, or a POST to
\* /connect/v1/access-tokens
getAccessToken(cache, t) ==
    IF CacheFresh(cache, t)
    THEN [hit |-> TRUE, token |-> cache.token]
    ELSE [hit |-> FALSE, token |-> NullToken]

\* axios.post(`${baseUrl}/connect/v1/access-tokens`, ...) of invocation c
PostToken(c) == [kind |-> "POST", call |-> c]

\* variant: the GET sent without waiting for the token
GetData_NoToken(c, token, cached) ==
    [kind |-> "GET", call |-> c, token |-> token, bearer |-> NullToken,
     cached |-> cached]

\* axios.get(..., { headers: { Authorization: `Bearer ${token}` } }) of
\* invocation c, with the token getAccessToken returned to it and whether
\* that token came from the cache
GetData(c, token, cached) ==
    [kind |-> "GET", call |-> c, token |-> token, bearer |-> token,
     cached |-> cached]

\* callConnect(endpoint) up to its wait for the upstream: with a cached
\* token the GET goes out, otherwise the invocation waits for the token
callConnect(r, cache, t) ==
    IF getAccessToken(cache, t).hit
    THEN [pc |-> "awaitData", req |-> r]
    ELSE [pc |-> "awaitToken", req |-> r]

\* variant: the invocations a handler starts on a stale cache share the
\* token POST of the first of them
callConnectSends_SharedPost(c, cache, t) ==
    LET got == getAccessToken(cache, t)
    IN  IF got.hit THEN GetData(c, got.token, TRUE)
        ELSE PostToken(1 + Cardinality({d \in CallIds : calls[d].pc # "free"}))

\* what callConnect(endpoint) of invocation c sends up to its wait
callConnectSends(c, cache, t) ==
    LET got == getAccessToken(cache, t)
    IN  IF got.hit THEN GetData(c, got.token, TRUE) ELSE PostToken(c)

NextCall == 1 + Cardinality({c \in CallIds : calls[c].pc # "free"})

\* the callConnect invocations a handler starts before its first await
CallsOf(route) == IF route = "overview" THEN 3 ELSE 1

\* a handler's code up to its await: k callConnect invocations started
\* one after the other, with no step of any other request in between
Begin(r, path, route) ==
    LET k == CallsOf(route)
        ids == [i \in 1..k |-> NextCall + i - 1]
        started == {ids[i] : i \in 1..k}
    IN  /\ NextCall + k - 1 <= MaxCalls
        /\ calls' = [c \in CallIds |->
                       IF c \in started THEN callConnect(r, tokenCache, now)
                       ELSE calls[c]]
        /\ reqs' = [reqs EXCEPT ![r] = [st |-> "pending", path |-> path,
                                        route |-> route, calls |-> ids]]
        /\ wire' = {callConnectSends(c, tokenCache, now) : c \in started}
        /\ sent' = NoResponse
        /\ UNCHANGED <<now, tokenCache, lastAcq>>
        /\ UNCHANGED aggVars

\* what the handler of `route` answers once all its fetches have resolved
SuccessResponse(route) ==
    IF route = "actionItems"
    THEN [status |-> OkStatus,
          body |-> [success |-> TRUE, data |-> "items", count |-> "items.length"]]
    ELSE IF route = "overview"
    THEN [status |-> OkStatus, body |-> [success |-> TRUE, data |-> "analytics"]]
    ELSE IF route = "weekly"
    THEN [status |-> OkStatus, body |-> [success |-> TRUE, data |-> "metrics"]]
    ELSE IF route = "active"
    THEN [status |-> OkStatus, body |-> [success |-> TRUE, data |-> "active"]]
    ELSE [status |-> OkStatus, body |-> [success |-> TRUE, data |-> "records"]]

\* the catch block of the handler of `route`
Catch(route, e) ==
    IF route = "connect" THEN ConnectErrorEnvelope(e) ELSE ErrorEnvelope(e)

\* the invocation has returned or thrown
Ended(call, how) == [call EXCEPT !.pc = how]

\* once the handler's await has settled, the results Promise.all held are
\* dropped
Settle(cs, r) ==
    [c \in CallIds |->
       IF cs[c].req = r /\ cs[c].pc = "done" THEN Ended(cs[c], "ended")
       ELSE cs[c]]

\* a rejected callConnect rejects the handler's await (Promise.all rejects
\* with the first rejection); the catch block answers unless the request
\* was answered already
Rejected(c, e) ==
    LET r == calls[c].req
        ended == [calls EXCEPT ![c] = Ended(calls[c], "ended")]
    IN  IF reqs[r].st = "pending"
        THEN /\ sent' = Send(r, Catch(reqs[r].route, e))
             /\ reqs' = [reqs EXCEPT ![r] = Answered]
             /\ calls' = Settle(ended, r)
        ELSE /\ calls' = ended
             /\ sent' = NoResponse
             /\ UNCHANGED reqs

\* variant: the handler goes on with the first fetch that resolves
AllResolved_Any(ids, c) == TRUE

\* the fetches of a request have all resolved (the one resolving now
\* included)
AllResolved(ids, c) ==
    \A i \in 1..Len(ids) : ids[i] = c \/ calls[ids[i]].pc = "done"

\* a resolved callConnect: the handler goes on once all its fetches have
\* resolved
Resolved(c) ==
    LET r == calls[c].req
        ids == reqs[r].calls
    IN  IF reqs[r].st = "pending"
        THEN IF AllResolved(ids, c)
             THEN /\ sent' = Send(r, SuccessResponse(reqs[r].route))
                  /\ reqs' = [reqs EXCEPT ![r] = Answered]
                  /\ calls' = Settle([calls EXCEPT ![c] = Ended(calls[c], "done")], r)
             ELSE /\ calls' = [calls EXCEPT ![c] = Ended(calls[c], "done")]
                  /\ sent' = NoResponse
                  /\ UNCHANGED reqs
        ELSE /\ calls' = [calls EXCEPT ![c] = Ended(calls[c], "ended")]
             /\ sent' = NoResponse
             /\ UNCHANGED reqs

\* the token POST succeeds: the cache is overwritten, getAccessToken
\* returns tokenCache.token and callConnect sends the GET with it
TokenOk(c, expiresIn) ==
    /\ calls[c].pc = "awaitToken"
    /\ tokenCache' = StoreToken(tokenCache, c, now, expiresIn)
    /\ lastAcq' = [at |-> now, expiresIn |-> expiresIn, token |-> c]
    /\ calls' = [calls EXCEPT ![c].pc = "awaitData"]
    /\ wire' = {GetData(c, tokenCache'.token, FALSE)}
    /\ sent' = NoResponse
    /\ UNCHANGED <<now, reqs>>
    /\ UNCHANGED aggVars

\* variant: a failed acquisition clears the cache
TokenFail_ClearsCache(c, e) ==
    /\ calls[c].pc = "awaitToken"
    /\ Rejected(c, e)
    /\ wire' = {}
    /\ tokenCache' = [token |-> NullToken, expiresAt |-> NullExpiry]
    /\ UNCHANGED <<now, lastAcq>>
    /\ UNCHANGED aggVars

\* the token POST fails: axios.post rejects, getAccessToken and callConnect
\* reject with it
TokenFail(c, e) ==
    /\ calls[c].pc = "awaitToken"
    /\ Rejected(c, e)
    /\ wire' = {}
    /\ UNCHANGED <<now, tokenCache, lastAcq>>
    /\ UNCHANGED aggVars

\* the GET succeeds: callConnect returns response.data
DataOk(c) ==
    /\ calls[c].pc = "awaitData"
    /\ Resolved(c)
    /\ wire' = {}
    /\ UNCHANGED <<now, tokenCache, lastAcq>>
    /\ UNCHANGED aggVars

\* the GET fails: axios.get rejects, callConnect rejects with it
DataFail(c, e) ==
    /\ calls[c].pc = "awaitData"
    /\ Rejected(c, e)
    /\ wire' = {}
    /\ UNCHANGED <<now, tokenCache, lastAcq>>
    /\ UNCHANGED aggVars

\* the next request to arrive is r
Arrives(r) ==
    /\ reqs[r].st = "new"
    /\ \A q \in ReqIds : q < r => reqs[q].st # "new"

(* ------------------------------------------------------------------ *)
(* Route handlers                                                      *)
(* ------------------------------------------------------------------ *)
\* app.get('/api/health')
HandleHealth(r, path) ==
    /\ Arrives(r)
    /\ RouteOf[path] = "health"
    /\ reqs' = [reqs EXCEPT ![r] = Answered]
    /\ sent' = [path |-> path, route |-> "health", status |-> OkStatus,
                body |-> [status |-> "ok",
                          tokenCached |-> Truthy(tokenCache.token)]]
    /\ wire' = {}
    /\ UNCHANGED <<now, tokenCache, calls, lastAcq>>
    /\ UNCHANGED aggVars

\* no route matches: the framework answers 404
NotFound(r, path) ==
    /\ Arrives(r)
    /\ RouteOf[path] = "notFound"
    /\ reqs' = [reqs EXCEPT ![r] = Answered]
    /\ sent' = [path |-> path, route |-> "notFound", status |-> NotFoundStatus,
                body |-> [html |-> "Cannot GET"]]
    /\ wire' = {}
    /\ UNCHANGED <<now, tokenCache, calls, lastAcq>>
    /\ UNCHANGED aggVars

HandleOverview(r, path) ==
    /\ Arrives(r)
    /\ RouteOf[path] = "overview"
    /\ Begin(r, path, "overview")

HandleTickets(r, path) ==
    /\ Arrives(r)
    /\ RouteOf[path] = "tickets"
    /\ Begin(r, path, "tickets")

HandleActionItems(r, path) ==
    /\ Arrives(r)
    /\ RouteOf[path] = "actionItems"
    /\ Begin(r, path, "actionItems")

HandleWeekly(r, path) ==
    /\ Arrives(r)
    /\ RouteOf[path] = "weekly"
    /\ Begin(r, path, "weekly")

HandleActive(r, path) ==
    /\ Arrives(r)
    /\ RouteOf[path] = "active"
    /\ Begin(r, path, "active")

HandleConnect(r, path) ==
    /\ Arrives(r)
    /\ RouteOf[path] = "connect"
    /\ Begin(r, path, "connect")


\* time passes
Tick ==
    /\ now < StartMs + MaxTicks * TickMs
    /\ now' = now + TickMs
    /\ sent' = NoResponse
    /\ wire' = {}
    /\ UNCHANGED <<tokenCache, calls, reqs, lastAcq>>
    /\ UNCHANGED aggVars

(* ------------------------------------------------------------------ *)
(* Aggregators                                                         *)
(* ------------------------------------------------------------------ *)
\* the ticket records an aggregator is given: the fields it reads
Statuses == {1, 2, ClosedStatus}
TicketIds == {1, 2}
Tickets == [id : TicketIds, status : Statuses]

\* the record lists of length at most n
RECURSIVE ListsUpTo(_)
ListsUpTo(n) ==
    IF n = 0 THEN {<<>>}
    ELSE LET shorter == ListsUpTo(n - 1)
         IN  shorter \cup {Append(l, t) : l \in {x \in shorter : Len(x) = n - 1},
                                          t \in Tickets}

RecordLists == ListsUpTo(MaxLen)

\* req.query.status: absent, empty, the three known values, an unknown one
StatusParams == {Undefined, "", "all", "open", "closed", "pending"}

\* !status
Falsy(v) == v = Undefined \/ v = ""

\* variant: the unwanted records are removed in place while the list is
\* scanned forward, so the record after a removed one is skipped
RECURSIVE SpliceScan(_, _, _)
SpliceScan(list, i, closed) ==
    IF i > Len(list) THEN list
    ELSE IF (list[i].status = ClosedStatus) = closed
    THEN SpliceScan(list, i + 1, closed)
    ELSE SpliceScan(SubSeq(list, 1, i - 1) \o SubSeq(list, i + 1, Len(list)),
                    i + 1, closed)

filterTicketsByStatus_InPlace(recs, st) ==
    IF Falsy(st) \/ st = "all" THEN recs
    ELSE IF st = "open" THEN SpliceScan(recs, 1, FALSE)
    ELSE IF st = "closed" THEN SpliceScan(recs, 1, TRUE)
    ELSE recs

\* variant: the two filters exchanged
filterTicketsByStatus_Swapped(recs, st) ==
    IF Falsy(st) \/ st = "all" THEN recs
    ELSE IF st = "open" THEN SelectSeq(recs, LAMBDA r : r.status = ClosedStatus)
    ELSE IF st = "closed" THEN SelectSeq(recs, LAMBDA r : r.status # ClosedStatus)
    ELSE recs

\* function filterTicketsByStatus(records, status); records.filter(keep)
\* is SelectSeq(records, keep)
filterTicketsByStatus(recs, st) ==
    IF Falsy(st) \/ st = "all" THEN recs
    ELSE IF st = "open" THEN SelectSeq(recs, LAMBDA r : r.status # ClosedStatus)
    ELSE IF st = "closed" THEN SelectSeq(recs, LAMBDA r : r.status = ClosedStatus)
    ELSE recs

\* no aggregator has run
NotRun == [op |-> "none", value |-> <<>>]

\* filterTicketsByStatus(records, status) is called
RunFilter ==
    /\ out = NotRun
    /\ out' = [op |-> "filterTicketsByStatus",
               value |-> filterTicketsByStatus(records, status)]
    /\ UNCHANGED inputVars
    /\ UNCHANGED serverVars

(* ------------------------------------------------------------------ *)
(* Counting objects, Object.entries and Array.prototype.sort           *)
(* ------------------------------------------------------------------ *)
\* a counting object (const distribution = {}) is the list of its own
\* properties [name, value] in the order they were created

\* key in obj
Has(obj, key) == \E i \in 1..Len(obj) : obj[i].name = key

\* obj[key] = (obj[key] || 0) + 1
Increment(obj, key) ==
    IF Has(obj, key)
    THEN [i \in 1..Len(obj) |->
            IF obj[i].name = key THEN [obj[i] EXCEPT !.value = @ + 1]
            ELSE obj[i]]
    ELSE Append(obj, [name |-> key, value |-> 1])

\* the property names among the modelled inputs that are array indices
\* (canonical numeric strings)
IsArrayIndex(key) == key \in {"7", "12"}
IndexOf(key) == IF key = "7" THEN 7 ELSE 12

\* a stable sort of [key, item] pairs by ascending key: each pair goes in
\* after the pairs already placed whose key is not greater
RECURSIVE InsertKeyed(_, _)
InsertKeyed(sorted, e) ==
    IF sorted = <<>> THEN <<e>>
    ELSE IF Head(sorted).key <= e.key
    THEN <<Head(sorted)>> \o InsertKeyed(Tail(sorted), e)
    ELSE <<e>> \o sorted

RECURSIVE SortKeyed(_)
SortKeyed(seq) ==
    IF seq = <<>> THEN <<>>
    ELSE InsertKeyed(SortKeyed(SubSeq(seq, 1, Len(seq) - 1)), seq[Len(seq)])

Items(keyed) == [i \in 1..Len(keyed) |-> keyed[i].item]

\* Object.entries(obj): the array-index names in ascending numeric order,
\* then the other names in creation order
ObjectEntries(obj) ==
    LET indexed == SelectSeq(obj, LAMBDA e : IsArrayIndex(e.name))
        named == SelectSeq(obj, LAMBDA e : ~IsArrayIndex(e.name))
    IN  Items(SortKeyed([i \in 1..Len(indexed) |->
                           [key |-> IndexOf(indexed[i].name),
                            item |-> indexed[i]]])) \o named

\* entries.sort((a, b) => b.value - a.value): descending by count, stable
SortByCountDesc(entries) ==
    Items(SortKeyed([i \in 1..Len(entries) |->
                       [key |-> 0 - entries[i].value, item |-> entries[i]]]))

(* ------------------------------------------------------------------ *)
(* Directories                                                         *)
(* ------------------------------------------------------------------ *)
\* `${firstName} ${lastName}`.trim()
DisplayName(person) ==
    IF person.lastName = "" THEN person.firstName
    ELSE IF person.firstName = "" THEN person.lastName
    ELSE person.firstName \o " " \o person.lastName

\* const agentMap = {}; agentsList.forEach(agent => agentMap[agent.id] = ...):
\* a later entry with the same id replaces an earlier one
LookupMap(list) ==
    [id \in {list[i].id : i \in 1..Len(list)} |->
       LET last == CHOOSE i \in 1..Len(list) :
                     /\ list[i].id = id
                     /\ \A j \in 1..Len(list) : list[j].id = id => j <= i
       IN  DisplayName(list[last])]

\* map[id], undefined when the map has no such property
Lookup(map, id) == IF id \in DOMAIN map THEN map[id] ELSE Undefined

\* record.assignee && agentMap[record.assignee]: the id is present and the
\* map gives it a non-empty name
NoId == 0
Resolves(map, id) ==
    id # NoId /\ Lookup(map, id) # Undefined /\ Lookup(map, id) # ""

(* ------------------------------------------------------------------ *)
(* processAssigneeDistribution                                         *)
(* ------------------------------------------------------------------ *)
\* records.forEach(record => { ... distribution[assigneeName] = ... + 1 })
RECURSIVE CountAssignees(_, _)
CountAssignees(recs, agentMap) ==
    IF recs = <<>> THEN <<>>
    ELSE LET record == recs[Len(recs)]
             assigneeName == IF Resolves(agentMap, record.assignee)
                             THEN Lookup(agentMap, record.assignee)
                             ELSE "Unassigned"
         IN  Increment(CountAssignees(SubSeq(recs, 1, Len(recs) - 1), agentMap),
                       assigneeName)

\* variant: a record without a resolved assignee is left out
RECURSIVE CountAssignees_SkipsUnresolved(_, _)
CountAssignees_SkipsUnresolved(recs, agentMap) ==
    IF recs = <<>> THEN <<>>
    ELSE LET record == recs[Len(recs)]
             before == CountAssignees_SkipsUnresolved(
                           SubSeq(recs, 1, Len(recs) - 1), agentMap)
         IN  IF Resolves(agentMap, record.assignee)
             THEN Increment(before, Lookup(agentMap, record.assignee))
             ELSE before

processAssigneeDistribution_SkipsUnresolved(recs, agentMap) ==
    SortByCountDesc(ObjectEntries(CountAssignees_SkipsUnresolved(recs, agentMap)))

\* function processAssigneeDistribution(records, agentMap)
processAssigneeDistribution(recs, agentMap) ==
    SortByCountDesc(ObjectEntries(CountAssignees(recs, agentMap)))

\* processAssigneeDistribution(records, agentMap) is called with the map
\* built from agents.data
RunAssigneeDistribution ==
    /\ out = NotRun
    /\ out' = [op |-> "processAssigneeDistribution",
               value |-> processAssigneeDistribution(records, LookupMap(agents))]
    /\ UNCHANGED inputVars
    /\ UNCHANGED serverVars

(* ------------------------------------------------------------------ *)
(* processPriorityDistribution                                         *)
(* ------------------------------------------------------------------ *)
\* const priorityMap = { 1: 'Very High', ..., 5: 'Very Low' }
priorityMap ==
    [p \in 1..5 |-> <<"Very High", "High", "Normal", "Low", "Very Low">>[p]]

\* priorityMap[record.priority] || 'Unknown'
PriorityLabel(p) ==
    IF p \in DOMAIN priorityMap THEN priorityMap[p] ELSE "Unknown"

\* records.forEach(record => { ... distribution[priority] = ... + 1 })
RECURSIVE CountPriorities(_)
CountPriorities(recs) ==
    IF recs = <<>> THEN <<>>
    ELSE Increment(CountPriorities(SubSeq(recs, 1, Len(recs) - 1)),
                   PriorityLabel(recs[Len(recs)].priority))

\* order[name] || 999
PriorityRank(name) ==
    IF name = "Very High" THEN 1
    ELSE IF name = "High" THEN 2
    ELSE IF name = "Normal" THEN 3
    ELSE IF name = "Low" THEN 4
    ELSE IF name = "Very Low" THEN 5
    ELSE 999

\* entries.sort((a, b) => (order[a.name] || 999) - (order[b.name] || 999))
SortByRank(entries) ==
    Items(SortKeyed([i \in 1..Len(entries) |->
                       [key |-> PriorityRank(entries[i].name),
                        item |-> entries[i]]]))

\* variant: sorted by count, as the other distributions are
processPriorityDistribution_ByCount(recs) ==
    SortByCountDesc(ObjectEntries(CountPriorities(recs)))

\* function processPriorityDistribution(records)
processPriorityDistribution(recs) ==
    SortByRank(ObjectEntries(CountPriorities(recs)))

\* processPriorityDistribution(records) is called
RunPriorityDistribution ==
    /\ out = NotRun
    /\ out' = [op |-> "processPriorityDistribution",
               value |-> processPriorityDistribution(records)]
    /\ UNCHANGED inputVars
    /\ UNCHANGED serverVars

(* ------------------------------------------------------------------ *)
(* processTopAdministrators and processTopEndUsers                     *)
(* ------------------------------------------------------------------ *)
\* .map(([name, count]) => ({ name, count }))
ToCounts(entries) ==
    [i \in 1..Len(entries) |->
       [name |-> entries[i].name, count |-> entries[i].value]]

\* .sort((a, b) => b.count - a.count): descending by count, stable
SortCountsDesc(entries) ==
    Items(SortKeyed([i \in 1..Len(entries) |->
                       [key |-> 0 - entries[i].count, item |-> entries[i]]]))

\* .slice(0, n)
Slice(entries, n) ==
    SubSeq(entries, 1, IF Len(entries) < n THEN Len(entries) ELSE n)

\* records.forEach(record => { if (record.assignee &&
\* agentMap[record.assignee]) { ... adminCounts[adminName] = ... + 1 } })
RECURSIVE CountAdministrators(_, _)
CountAdministrators(recs, agentMap) ==
    IF recs = <<>> THEN <<>>
    ELSE LET record == recs[Len(recs)]
             before == CountAdministrators(SubSeq(recs, 1, Len(recs) - 1),
                                           agentMap)
         IN  IF Resolves(agentMap, record.assignee)
             THEN Increment(before, Lookup(agentMap, record.assignee))
             ELSE before

\* variant: the ranking built from the distribution's buckets, "Unassigned"
\* among them
processTopAdministrators_WithUnassigned(recs, agentMap) ==
    Slice(SortCountsDesc(ToCounts(ObjectEntries(
        CountAssignees(recs, agentMap)))), TopAdministrators)

\* function processTopAdministrators(records, agentMap)
processTopAdministrators(recs, agentMap) ==
    Slice(SortCountsDesc(ToCounts(ObjectEntries(
        CountAdministrators(recs, agentMap)))), TopAdministrators)

\* processTopAdministrators(records, agentMap) is called with the map
\* built from agents.data
RunTopAdministrators ==
    /\ out = NotRun
    /\ out' = [op |-> "processTopAdministrators",
               value |-> processTopAdministrators(records, LookupMap(agents))]
    /\ UNCHANGED inputVars
    /\ UNCHANGED serverVars

\* records.forEach(record => { if (record.requestUser &&
\* endUserMap[record.requestUser]) { ... userCounts[userName] = ... + 1 } })
RECURSIVE CountEndUsers(_, _)
CountEndUsers(recs, endUserMap) ==
    IF recs = <<>> THEN <<>>
    ELSE LET record == recs[Len(recs)]
             before == CountEndUsers(SubSeq(recs, 1, Len(recs) - 1), endUserMap)
         IN  IF Resolves(endUserMap, record.requestUser)
             THEN Increment(before, Lookup(endUserMap, record.requestUser))
             ELSE before

\* variant: the first five names taken before they are sorted
processTopEndUsers_SliceFirst(recs, endUserMap) ==
    SortCountsDesc(Slice(ToCounts(ObjectEntries(
        CountEndUsers(recs, endUserMap))), TopEndUsers))

\* function processTopEndUsers(records, endUserMap)
processTopEndUsers(recs, endUserMap) ==
    Slice(SortCountsDesc(ToCounts(ObjectEntries(
        CountEndUsers(recs, endUserMap)))), TopEndUsers)

\* processTopEndUsers(records, endUserMap) is called with the map built
\* from endUsers.data
RunTopEndUsers ==
    /\ out = NotRun
    /\ out' = [op |-> "processTopEndUsers",
               value |-> processTopEndUsers(records, LookupMap(endUsers))]
    /\ UNCHANGED inputVars
    /\ UNCHANGED serverVars

(* ------------------------------------------------------------------ *)
(* Numbers and response bodies                                         *)
(* ------------------------------------------------------------------ *)
\* 24 * 60 * 60 * 1000
DayMs == 24 * 60 * 60 * 1000

\* the body of an upstream response: an array of records, or something
\* else (an object that wraps them)
Body(isArray, items) == [isArray |-> isArray, items |-> items]

\* Array.isArray(response) ? response : []
ArrayItems(response) == IF response.isArray THEN response.items ELSE <<>>

\* a / b as the pair of its operands: 0 / 0 is NaN, a / 0 is Infinity
Ratio(a, b) == [num |-> a, den |-> b]

\* the number 0
Zero == Ratio(0, 1)

\* r * k
Times(r, k) == [r EXCEPT !.num = @ * k]

(* ------------------------------------------------------------------ *)
(* GET /api/tickets/active                                             *)
(* ------------------------------------------------------------------ *)
\* variant: the division without its guard
Percentage_NoGuard(count, total) == Times(Ratio(count, total), 100)

\* activeRecords.length > 0 ? (count / activeRecords.length) * 100 : 0
Percentage(count, total) ==
    IF total > 0 THEN Times(Ratio(count, total), 100) ELSE Zero

\* the handler of /api/tickets/active after its await, at Date.now() = t
activeTickets(response, t) ==
    LET recs == ArrayItems(response)
        activeRecords == SelectSeq(recs, LAMBDA r : r.status # ClosedStatus)
        fiveDaysAgo == t - 5 * DayMs
        overdue == Len(SelectSeq(activeRecords,
                     LAMBDA r : r.dueDate # 0 /\ r.dueDate < t))
        openMoreThan5Days == Len(SelectSeq(activeRecords,
                     LAMBDA r : r.insertTime # 0 /\ r.insertTime < fiveDaysAgo))
        noDueDate == Len(SelectSeq(activeRecords, LAMBDA r : r.dueDate = 0))
    IN  [success |-> TRUE,
         data |-> [totalActive |-> Len(activeRecords),
                   overduePercent |-> Percentage(overdue, Len(activeRecords)),
                   openMoreThan5Days |->
                       Percentage(openMoreThan5Days, Len(activeRecords)),
                   noDueDate |-> Percentage(noDueDate, Len(activeRecords))]]

\* the handler of /api/tickets/active goes on with the upstream's
\* response: the records as an array, or an object that is no array
RunActive ==
    /\ out = NotRun
    /\ \E isArray \in BOOLEAN :
         out' = [op |-> "active", array |-> isArray,
                 value |-> activeTickets(Body(isArray, records), now)]
    /\ UNCHANGED inputVars
    /\ UNCHANGED serverVars

(* ------------------------------------------------------------------ *)
(* GET /api/metrics/weekly                                             *)
(* ------------------------------------------------------------------ *)
\* const { status = 'open' } = req.query
DefaultStatus(st) == IF st = Undefined THEN "open" ELSE st

\* a / b rounded to the nearest integer, halves away from zero (b > 0)
RoundDiv(a, b) ==
    IF a >= 0
    THEN (a \div b) + (IF 2 * (a % b) >= b THEN 1 ELSE 0)
    ELSE 0 - (((0 - a) \div b) + (IF 2 * ((0 - a) % b) >= b THEN 1 ELSE 0))

\* a number used as a condition: 0 and NaN are falsy
TruthyNumber(x) == x.num # 0 /\ x.den # 0

\* list.reduce((sum, r) => sum + (Date.now() - r.insertTime), 0)
RECURSIVE TotalAgeMs(_, _)
TotalAgeMs(list, t) ==
    IF list = <<>> THEN 0
    ELSE TotalAgeMs(SubSeq(list, 1, Len(list) - 1), t)
         + (t - list[Len(list)].insertTime)

\* calcOpenTicketAge(list) at Date.now() = t: the mean age in days, to two
\* decimals (a number of hundredths)
calcOpenTicketAge(list, t) ==
    IF Len(list) = 0 THEN Zero
    ELSE Ratio(RoundDiv(TotalAgeMs(list, t), Len(list) * (DayMs \div 100)), 100)

\* +(((currentMTTR - previousMTTR) / previousMTTR) * 100).toFixed(2); a
\* division by 0 gives NaN or Infinity
PercentChange(cur, prev) ==
    IF prev.num = 0 THEN Ratio(cur.num - prev.num, 0)
    ELSE Ratio(RoundDiv(100 * 100 * (cur.num - prev.num), prev.num), 100)

\* variant: the change computed without looking at previousMTTR
Change_NoGuard(cur, prev) == PercentChange(cur, prev)

\* previousMTTR ? ... : 0
Change(cur, prev) ==
    IF TruthyNumber(prev) THEN PercentChange(cur, prev) ELSE Zero

\* the handler of /api/metrics/weekly: now is read at t0, before the
\* await, and the ages are taken at t1, after it
weeklyMetrics(response, statusParam, t0, t1) ==
    LET sevenDaysAgo == t0 - 7 * DayMs
        fourteenDaysAgo == t0 - 14 * DayMs
        allRecords == ArrayItems(response)
        recs == filterTicketsByStatus(allRecords, DefaultStatus(statusParam))
        currentWeek == SelectSeq(recs, LAMBDA r : r.updateTime >= sevenDaysAgo)
        previousWeek == SelectSeq(recs, LAMBDA r :
                            /\ r.updateTime >= fourteenDaysAgo
                            /\ r.updateTime < sevenDaysAgo)
        currentMTTR == calcOpenTicketAge(currentWeek, t1)
        previousMTTR == calcOpenTicketAge(previousWeek, t1)
    IN  [success |-> TRUE,
         data |-> [mttr |-> [value |-> currentMTTR,
                             previousValue |-> previousMTTR,
                             change |-> Change(currentMTTR, previousMTTR)],
                   meta |-> [currentWeekCount |-> Len(currentWeek),
                             previousWeekCount |-> Len(previousWeek)]]]

\* the handler of /api/metrics/weekly goes on with the upstream's
\* response, at once or after the fetch has taken TickMs
RunWeekly ==
    /\ out = NotRun
    /\ \E isArray \in BOOLEAN, elapsed \in {0, TickMs} :
         out' = [op |-> "weekly", array |-> isArray,
                 value |-> weeklyMetrics(Body(isArray, records), status,
                                         now, now + elapsed)]
    /\ UNCHANGED inputVars
    /\ UNCHANGED serverVars

(* ------------------------------------------------------------------ *)
(* GET /api/analytics/overview                                         *)
(* ------------------------------------------------------------------ *)
\* variant: open and closed are counted over the filtered records
overviewSummary_Filtered(allRecords, recs) ==
    [total |-> Len(recs),
     open |-> Len(SelectSeq(recs, LAMBDA r : r.status # ClosedStatus)),
     closed |-> Len(SelectSeq(recs, LAMBDA r : r.status = ClosedStatus))]

\* summary: { total: records.length, open: allRecords.filter(...).length,
\*            closed: allRecords.filter(...).length }
overviewSummary(allRecords, recs) ==
    [total |-> Len(recs),
     open |-> Len(SelectSeq(allRecords, LAMBDA r : r.status # ClosedStatus)),
     closed |-> Len(SelectSeq(allRecords, LAMBDA r : r.status = ClosedStatus))]

\* the handler of /api/analytics/overview once the three fetches have
\* resolved
overviewAnalytics(serviceRecords, agentsList, endUsersList, statusParam) ==
    LET allRecords == ArrayItems(serviceRecords)
        recs == filterTicketsByStatus(allRecords, DefaultStatus(statusParam))
        agentMap == LookupMap(agentsList)
        endUserMap == LookupMap(endUsersList)
    IN  [success |-> TRUE,
         data |-> [assigneeDistribution |->
                       processAssigneeDistribution(recs, agentMap),
                   priorityDistribution |-> processPriorityDistribution(recs),
                   topAdministrators |-> processTopAdministrators(recs, agentMap),
                   topEndUsers |-> processTopEndUsers(recs, endUserMap),
                   summary |-> overviewSummary(allRecords, recs)]]

\* the handler of /api/analytics/overview goes on with the upstream's
\* responses
RunOverview ==
    /\ out = NotRun
    /\ \E isArray \in BOOLEAN :
         out' = [op |-> "overview", array |-> isArray,
                 value |-> overviewAnalytics(Body(isArray, records), agents,
                                             endUsers, status)]
    /\ UNCHANGED inputVars
    /\ UNCHANGED serverVars

(* ------------------------------------------------------------------ *)
(* Aggregator inputs                                                   *)
(* ------------------------------------------------------------------ *)
\* a service record with every field the aggregators read absent
BlankTicket ==
    [id |-> 1, status |-> 1, priority |-> 0, assignee |-> NoId,
     requestUser |-> NoId, insertTime |-> 0, updateTime |-> 0, dueDate |-> 0]

\* the lists over S of length at most n
RECURSIVE SeqsUpTo(_, _)
SeqsUpTo(S, n) ==
    IF n = 0 THEN {<<>>}
    ELSE LET shorter == SeqsUpTo(S, n - 1)
         IN  shorter \cup {Append(l, t) : l \in {x \in shorter : Len(x) = n - 1},
                                          t \in S}

Person(id, firstName, lastName) ==
    [id |-> id, firstName |-> firstName, lastName |-> lastName]

\* agent directories: empty; three agents, one of them named "7"; two ids
\* with the same name and an id listed twice
AgentDirs == {
    <<>>,
    <<Person(1, "Ann", "Lee"), Person(2, "Bob", ""), Person(3, "7", "")>>,
    <<Person(1, "Ann", "Lee"), Person(2, "Ann", "Lee"), Person(3, "Bob", ""),
      Person(3, "", "Cy")>> }

\* records that differ in their assignee: absent, three agent ids, an id
\* no directory has
AssigneeTickets ==
    {[BlankTicket EXCEPT !.assignee = a] : a \in {NoId, 1, 2, 3, 9}}

\* the lists of person ids of length at most n in which the persons are
\* numbered in the order of their first appearance (the k-th person to
\* appear has id k) and NoId marks a record that names nobody
PersonsIn(l) == Cardinality({l[i] : i \in 1..Len(l)} \ {NoId})

RECURSIVE IdListsUpTo(_)
IdListsUpTo(n) ==
    IF n = 0 THEN {<<>>}
    ELSE LET shorter == IdListsUpTo(n - 1)
         IN  shorter \cup
             UNION {{Append(l, id) : id \in 0..(PersonsIn(l) + 1)} :
                    l \in {x \in shorter : Len(x) = n - 1}}

\* the record lists of the rankings: the person a record names is both
\* its assignee and its requester (each ranking reads one of the fields)
RankingLists ==
    {[i \in 1..Len(l) |->
        [BlankTicket EXCEPT !.assignee = l[i], !.requestUser = l[i]]] :
     l \in IdListsUpTo(MaxRankingLen)}

\* the directories of the rankings: one agent more than the top four, one
\* end user more than the top five
RankingAgents ==
    [i \in 1..(TopAdministrators + 1) |->
       Person(i, <<"Ann", "Bob", "Cy", "Dee", "Eve", "Flo">>[i], "Lee")]
RankingEndUsers ==
    [i \in 1..(TopEndUsers + 1) |->
       Person(i, <<"Ann", "Bob", "Cy", "Dee", "Eve", "Flo">>[i], "Kim")]

\* Date.now() when a handler's computation is checked on its own
HandlerClock == StartDays * DayMs

\* records that differ in what /api/tickets/active reads: open or closed;
\* no due date, one in the past, one in the future; no insert time, one
\* more than five days ago, a recent one
ActiveTickets ==
    {[BlankTicket EXCEPT !.status = st, !.dueDate = due, !.insertTime = ins] :
     st \in {1, ClosedStatus},
     due \in {0, HandlerClock - DayMs, HandlerClock + DayMs},
     ins \in {0, HandlerClock - 6 * DayMs, HandlerClock - DayMs}}

\* records that differ in what /api/metrics/weekly reads: open or closed;
\* updated before the previous week, in it, in the current week; inserted
\* eight days ago, a day ago, just now
WeeklyTickets ==
    {[BlankTicket EXCEPT !.status = st, !.updateTime = upd, !.insertTime = ins] :
     st \in {1, ClosedStatus},
     upd \in {HandlerClock - 15 * DayMs, HandlerClock - 8 * DayMs,
              HandlerClock - DayMs},
     ins \in {HandlerClock - 8 * DayMs, HandlerClock - DayMs, HandlerClock}}

\* records that differ in what /api/analytics/overview reads: three
\* statuses, no assignee or agent 1, a requester and a priority
OverviewTickets ==
    {[BlankTicket EXCEPT !.status = st, !.assignee = a, !.requestUser = 1,
                         !.priority = 2] :
     st \in Statuses, a \in {NoId, 1}}

\* records that differ in their priority: missing, the five codes, another
PriorityTickets ==
    {[BlankTicket EXCEPT !.priority = p] : p \in 0..6}

(* ------------------------------------------------------------------ *)
(* Specifications                                                      *)
(* ------------------------------------------------------------------ *)
Init ==
    /\ ServerInit
    /\ records = <<>>
    /\ status = Undefined
    /\ agents = <<>>
    /\ endUsers = <<>>
    /\ out = NotRun

Next ==
    \/ Tick
    \/ \E r \in ReqIds, path \in RequestPaths : HandleHealth(r, path)
    \/ \E r \in ReqIds, path \in RequestPaths : NotFound(r, path)
    \/ \E r \in ReqIds, path \in RequestPaths : HandleOverview(r, path)
    \/ \E r \in ReqIds, path \in RequestPaths : HandleTickets(r, path)
    \/ \E r \in ReqIds, path \in RequestPaths : HandleActionItems(r, path)
    \/ \E r \in ReqIds, path \in RequestPaths : HandleWeekly(r, path)
    \/ \E r \in ReqIds, path \in RequestPaths : HandleActive(r, path)
    \/ \E r \in ReqIds, path \in RequestPaths : HandleConnect(r, path)
    \/ \E c \in CallIds, expiresIn \in Lifetimes : TokenOk(c, expiresIn)
    \/ \E c \in CallIds, e \in Errors : TokenFail(c, e)
    \/ \E c \in CallIds : DataOk(c)
    \/ \E c \in CallIds, e \in Errors : DataFail(c, e)

Spec == Init /\ [][Next]_vars

\* the aggregators alone, on every input within the bounds
AggInit ==
    /\ ServerInit
    /\ records \in RecordLists
    /\ status \in StatusParams
    /\ agents = <<>>
    /\ endUsers = <<>>
    /\ out = NotRun

AggNext == RunFilter

SpecAgg == AggInit /\ [][AggNext]_vars

\* the distribution aggregators, on every input within the bounds
DistInit ==
    /\ ServerInit
    /\ \/ /\ records \in SeqsUpTo(AssigneeTickets, MaxLen)
          /\ agents \in AgentDirs
       \/ /\ records \in SeqsUpTo(PriorityTickets, MaxPriorityLen)
          /\ agents = <<>>
    /\ status = Undefined
    /\ endUsers = <<>>
    /\ out = NotRun

DistNext ==
    \/ RunAssigneeDistribution
    \/ RunPriorityDistribution
    \/ RunTopAdministrators

SpecDist == DistInit /\ [][DistNext]_vars

\* the rankings, on lists long enough to leave names out
RankingInit ==
    /\ ServerInit
    /\ records \in RankingLists
    /\ status = Undefined
    /\ agents = RankingAgents
    /\ endUsers = RankingEndUsers
    /\ out = NotRun

RankingNext ==
    \/ RunTopAdministrators
    \/ RunTopEndUsers

SpecRanking == RankingInit /\ [][RankingNext]_vars

\* a server at rest at HandlerClock
HandlerServerInit ==
    /\ now = HandlerClock
    /\ tokenCache = [token |-> NullToken, expiresAt |-> NullExpiry]
    /\ calls = [c \in CallIds |-> FreeCall]
    /\ reqs = [r \in ReqIds |-> NewReq]
    /\ sent = NoResponse
    /\ wire = {}
    /\ lastAcq = [at |-> 0, expiresIn |-> 0, token |-> NullToken]

\* the computation of /api/tickets/active, on every input within the bounds
ActiveInit ==
    /\ HandlerServerInit
    /\ records \in SeqsUpTo(ActiveTickets, MaxHandlerLen)
    /\ status = Undefined
    /\ agents = <<>>
    /\ endUsers = <<>>
    /\ out = NotRun

ActiveNext == RunActive

SpecActive == ActiveInit /\ [][ActiveNext]_vars

\* the server when requests start to arrive some time after its start: the
\* cache is still empty, or holds the token of an acquisition made TickMs
\* ago, which has expired by now (lifetime 300 s) or will have after
\* another TickMs (lifetime 400 s)
EarlierToken == MaxCalls + 1

FanOutInit ==
    /\ now = StartMs
    /\ \/ /\ tokenCache = [token |-> NullToken, expiresAt |-> NullExpiry]
          /\ lastAcq = [at |-> 0, expiresIn |-> 0, token |-> NullToken]
       \/ \E expiresIn \in Lifetimes :
            /\ tokenCache = StoreToken([token |-> NullToken,
                                        expiresAt |-> NullExpiry],
                                       EarlierToken, StartMs - TickMs, expiresIn)
            /\ lastAcq = [at |-> StartMs - TickMs, expiresIn |-> expiresIn,
                          token |-> EarlierToken]
    /\ calls = [c \in CallIds |-> FreeCall]
    /\ reqs = [r \in ReqIds |-> NewReq]
    /\ sent = NoResponse
    /\ wire = {}
    /\ records = <<>>
    /\ status = Undefined
    /\ agents = <<>>
    /\ endUsers = <<>>
    /\ out = NotRun

\* the requests that arrive are for /api/analytics/overview and /api/tickets
FanOutPaths == {<<"api", "analytics", "overview">>, <<"api", "tickets">>}

FanOutNext ==
    \/ Tick
    \/ \E r \in ReqIds, path \in FanOutPaths : HandleOverview(r, path)
    \/ \E r \in ReqIds, path \in FanOutPaths : HandleTickets(r, path)
    \/ \E c \in CallIds, expiresIn \in Lifetimes : TokenOk(c, expiresIn)
    \/ \E c \in CallIds, e \in Errors : TokenFail(c, e)
    \/ \E c \in CallIds : DataOk(c)
    \/ \E c \in CallIds, e \in Errors : DataFail(c, e)

SpecFanOut == FanOutInit /\ [][FanOutNext]_vars

\* the computation of /api/analytics/overview, on every input within the
\* bounds
OverviewInit ==
    /\ ServerInit
    /\ records \in SeqsUpTo(OverviewTickets, MaxLen)
    /\ status \in StatusParams
    /\ agents \in AgentDirs
    /\ endUsers = RankingEndUsers
    /\ out = NotRun

OverviewNext == RunOverview

SpecOverview == OverviewInit /\ [][OverviewNext]_vars

\* the computation of /api/metrics/weekly, on every input within the bounds
WeeklyInit ==
    /\ HandlerServerInit
    /\ records \in SeqsUpTo(WeeklyTickets, MaxHandlerLen)
    /\ status \in StatusParams
    /\ agents = <<>>
    /\ endUsers = <<>>
    /\ out = NotRun

WeeklyNext == RunWeekly

SpecWeekly == WeeklyInit /\ [][WeeklyNext]_vars

(* ------------------------------------------------------------------ *)
(* Properties                                                          *)
(* ------------------------------------------------------------------ *)
\* the handler of request r ran up to its await in this step
Started(r) == reqs[r].st = "new" /\ reqs'[r].st = "pending"

\* the callConnect invocations this step started
StartedCalls == {c \in CallIds : calls[c].pc = "free" /\ calls'[c].pc # "free"}

\* the token POST of invocation c was answered with success in this step
Acquired(c) == calls[c].pc = "awaitToken" /\ calls'[c].pc = "awaitData"

\* C1 - token reuse: a handler that runs while tokenCache.token is set and
\* now < tokenCache.expiresAt gets the cached token for every callConnect
\* it makes, sends no token POST and leaves the cache as it is; a token
\* POST is only ever sent from a state whose cache is empty or expired.
C1_Step ==
    /\ \A r \in ReqIds :
         (Started(r) /\ Truthy(tokenCache.token) /\ now < tokenCache.expiresAt)
         => /\ StartedCalls # {}
            /\ \A c \in StartedCalls :
                 /\ GetData(c, tokenCache.token, TRUE) \in wire'
                 /\ calls'[c].pc = "awaitData"
            /\ \A m \in wire' : m.kind # "POST"
            /\ tokenCache' = tokenCache
    /\ \A m \in wire' :
         m.kind = "POST"
         => ~(Truthy(tokenCache.token) /\ now < tokenCache.expiresAt)

C1_TokenReuse == [][C1_Step]_vars

\* a second request served from the cache while a first one is still
\* waiting for its data
C1_Witness ==
    /\ Truthy(tokenCache.token)
    /\ now < tokenCache.expiresAt
    /\ \E m \in wire :
         /\ m.kind = "GET"
         /\ m.cached
         /\ m.token = tokenCache.token
         /\ m.call # tokenCache.token

\* C2 - expiry margin: a cached token acquired at time a with reported
\* lifetime L has expiresAt = a + (L - 300) * 1000 ms, and a handler that
\* runs at or after that instant sends a token POST for every callConnect
\* it makes and no GET (with L <= 300 that is every handler from the
\* acquisition instant on).
C2_Step ==
    /\ Truthy(tokenCache'.token)
       => tokenCache'.expiresAt = lastAcq'.at + (lastAcq'.expiresIn - 300) * 1000
    /\ \A r \in ReqIds :
         (/\ Started(r)
          /\ Truthy(tokenCache.token)
          /\ now >= lastAcq.at + (lastAcq.expiresIn - 300) * 1000)
         => /\ StartedCalls # {}
            /\ \A c \in StartedCalls :
                 /\ PostToken(c) \in wire'
                 /\ calls'[c].pc = "awaitToken"
            /\ \A m \in wire' : m.kind = "POST"

C2_ExpiryMargin == [][C2_Step]_vars

\* a token POST sent although a token is cached: time has passed the
\* expiry instant of a token with lifetime 300 s
C2_Witness ==
    /\ Truthy(tokenCache.token)
    /\ lastAcq.expiresIn <= 300
    /\ now > lastAcq.at
    /\ \E m \in wire : m.kind = "POST"

\* C3 - no reuse past expiry: whenever a callConnect got its token from
\* the cache, the clock at that moment is strictly below
\* tokenCache.expiresAt.
C3_NoReusePastExpiry ==
    \A m \in wire :
        (m.kind = "GET" /\ m.cached) => now < tokenCache.expiresAt

\* a token served from the cache some time after its acquisition
C3_Witness ==
    /\ lastAcq.at < now
    /\ \E m \in wire : m.kind = "GET" /\ m.cached /\ m.token = lastAcq.token

\* C4 - a failed upstream call leaves the cache alone: in a step in which
\* a token POST or a data GET fails, tokenCache is unchanged, nothing is
\* sent upstream again, the invocation has ended for good, and a handler
\* still waiting for it answers 500 with success = false; only a
\* successful acquisition ever changes the cache.
C4_Failed(c) ==
    \/ /\ calls[c].pc = "awaitToken"
       /\ calls'[c].pc \notin {"awaitToken", "awaitData"}
    \/ /\ calls[c].pc = "awaitData"
       /\ calls'[c].pc = "ended"
       /\ sent'.status # OkStatus

C4_Step ==
    /\ \A c \in CallIds :
         C4_Failed(c)
         => /\ tokenCache' = tokenCache
            /\ wire' = {}
            /\ calls'[c].pc = "ended"
            /\ reqs[calls[c].req].st = "pending"
               => /\ sent'.status = 500
                  /\ sent'.body.success = FALSE
                  /\ reqs'[calls[c].req].st = "responded"
    /\ \A c \in CallIds : calls[c].pc = "ended" => calls'[c].pc = "ended"
    /\ tokenCache' # tokenCache => \E c \in CallIds : Acquired(c)

C4_FailureLeavesCache == [][C4_Step]_vars

\* a request has just failed while a token is cached
C4_Witness ==
    /\ sent.status = 500
    /\ Truthy(tokenCache.token)
    /\ wire = {}
    /\ \E c \in CallIds : calls[c].pc = "ended"

\* C5 - unsynchronised refresh: a handler that finds the cache empty or
\* expired sends its own token POST for each callConnect, whatever other
\* acquisitions are in flight; an invocation whose POST succeeds sends its
\* GET with the token that POST returned; and the cache always holds the
\* token and expiry of the acquisition that succeeded last.
C5_Step ==
    /\ \A r \in ReqIds :
         (Started(r) /\ ~(Truthy(tokenCache.token) /\ now < ToNumber(tokenCache.expiresAt)))
         => \A c \in StartedCalls : PostToken(c) \in wire'
    /\ \A c \in CallIds :
         Acquired(c)
         => /\ wire' = {[kind |-> "GET", call |-> c, token |-> c, bearer |-> c,
                         cached |-> FALSE]}
            /\ tokenCache'.token = c
            /\ \E L \in Lifetimes :
                 tokenCache'.expiresAt = now + (L - 300) * 1000
    /\ tokenCache'.token = lastAcq'.token
    /\ Truthy(tokenCache'.token)
       => tokenCache'.expiresAt = lastAcq'.at + (lastAcq'.expiresIn - 300) * 1000

C5_UnsynchronisedRefresh == [][C5_Step]_vars

\* two invocations raced on the empty cache, both acquired a token, and
\* the one that started first completed last: the cache holds its token
C5_Witness ==
    /\ NextCall = 3
    /\ calls[2].pc = "awaitData"
    /\ tokenCache.token = 1
    /\ \E m \in wire : m.kind = "GET" /\ m.call = 1 /\ ~m.cached

\* C6 - token before data: every GET a step sends belongs to an
\* invocation for which getAccessToken has just returned a token (the
\* cached one, or the one its own POST returned) and carries that token
\* as its Bearer credential; an invocation whose token POST fails ends
\* without ever sending a GET.
C6_Step ==
    /\ \A m \in wire' :
         m.kind = "GET"
         => /\ Truthy(m.token)
            /\ m.bearer = m.token
            /\ calls'[m.call].pc = "awaitData"
            /\ IF m.cached
               THEN /\ calls[m.call].pc = "free"
                    /\ m.token = tokenCache.token
               ELSE /\ calls[m.call].pc = "awaitToken"
                    /\ m.token = lastAcq'.token
                    /\ lastAcq'.at = now
    /\ \A c \in CallIds :
         (calls[c].pc # "awaitData" /\ calls'[c].pc = "awaitData")
         => \E m \in wire' : m.kind = "GET" /\ m.call = c
    /\ \A c \in CallIds :
         (calls[c].pc = "awaitToken" /\ calls'[c].pc = "ended")
         => \A m \in wire' : m.call # c
    /\ \A c \in CallIds :
         calls[c].pc \in {"awaitData", "done", "ended"}
         => \A m \in wire' : m.call # c

C6_TokenBeforeData == [][C6_Step]_vars

\* a GET sent with the token the invocation's own POST has just returned
C6_Witness ==
    \E m \in wire :
        /\ m.kind = "GET"
        /\ ~m.cached
        /\ m.bearer = m.call
        /\ calls[m.call].pc = "awaitData"

\* C7 - fan-out/fan-in: the overview handler starts its three fetches in
\* one step; it answers 200 only in the step in which the last of the
\* three resolves, the other two having resolved before; the first fetch
\* to fail makes it answer 500 with success = false; and a request that
\* was answered is never answered again.
C7_Step ==
    /\ sent'.route = "overview"
       => \E q \in ReqIds :
            /\ reqs[q].st = "pending"
            /\ reqs[q].route = "overview"
            /\ reqs'[q].st = "responded"
    /\ \A r \in ReqIds :
           /\ (Started(r) /\ reqs'[r].route = "overview")
              => /\ Len(reqs'[r].calls) = 3
                 /\ Cardinality(StartedCalls) = 3
                 /\ \A i \in 1..3 :
                      /\ reqs'[r].calls[i] \in StartedCalls
                      /\ \E m \in wire' : m.call = reqs'[r].calls[i]
           /\ (reqs[r].st = "pending" /\ reqs[r].route = "overview")
              => /\ \A i \in 1..3 : calls[reqs[r].calls[i]].pc # "ended"
                 /\ reqs'[r].st = "responded"
                    => /\ sent'.route = "overview"
                       /\ sent'.status \in {OkStatus, 500}
                       /\ sent'.status = OkStatus
                          => /\ \A i \in 1..3 :
                                  calls[reqs[r].calls[i]].pc \in {"done", "awaitData"}
                             /\ Cardinality({i \in 1..3 :
                                  calls[reqs[r].calls[i]].pc = "done"}) = 2
                             /\ sent'.body.success = TRUE
                       /\ sent'.status = 500
                          => /\ sent'.body.success = FALSE
                             /\ "data" \notin DOMAIN sent'.body
           /\ reqs[r].st = "responded" => reqs'[r].st = "responded"

C7_FanOutFanIn == [][C7_Step]_vars

\* the overview request has just been answered 500 while another of its
\* fetches is still in flight
C7_Witness ==
    /\ sent.route = "overview"
    /\ sent.status = 500
    /\ \E c \in CallIds :
         /\ calls[c].pc \in {"awaitToken", "awaitData"}
         /\ reqs[calls[c].req].st = "responded"

\* C8 - uniform error envelope: every 500 a handler sends has
\* success = false, the error's message, and, when the failure carries an
\* upstream response body, that body as details.
C8_UniformEnvelope ==
    sent.status = 500
    => /\ sent.route \in {"overview", "tickets", "actionItems", "weekly",
                          "active", "connect"}
       /\ sent.body.success = FALSE
       /\ "error" \in DOMAIN sent.body
       /\ sent.body.error = HttpError.message
          => /\ "details" \in DOMAIN sent.body
             /\ sent.body.details = HttpError.response.data

\* C9 - every endpoint the test script requests is routed to a handler
\* and, unless an upstream call failed, is answered 2xx with a body whose
\* success is not false.
C9_TestEndpointsServed ==
    (sent.path \in TestEndpoints /\ sent.status # 500)
    => /\ sent.route # "notFound"
       /\ sent.status \in 200..299
       /\ "success" \in DOMAIN sent.body => sent.body.success # FALSE

\* the records of recs at the indices idx, in increasing index order
Selection(result, recs, idx) ==
    /\ Len(result) = Cardinality(idx)
    /\ \A i \in idx : result[Cardinality({j \in idx : j <= i})] = recs[i]

\* C10 - filterTicketsByStatus: "open" gives exactly the records with
\* status # 34 in input order, "closed" exactly those with status = 34 in
\* input order, and "all", an absent or an unrecognised value gives the
\* input unchanged; the call returns for every input.
C10_FilterByStatus ==
    /\ out = NotRun => ENABLED RunFilter
    /\ out.op = "filterTicketsByStatus"
       => IF status = "open"
          THEN Selection(out.value, records,
                         {i \in 1..Len(records) : records[i].status # 34})
          ELSE IF status = "closed"
          THEN Selection(out.value, records,
                         {i \in 1..Len(records) : records[i].status = 34})
          ELSE out.value = records

\* "open" has dropped the closed record from between two open ones
C10_Witness ==
    /\ out.op = "filterTicketsByStatus"
    /\ status = "open"
    /\ Len(records) = 3
    /\ records[2].status = 34
    /\ Len(out.value) = 2
    /\ out.value[1] # out.value[2]

\* C11 - status filter idempotence: filtering the result of
\* filterTicketsByStatus(records, status) again by the same status gives
\* that result back, for every record list and every status value.
C11_FilterIdempotent ==
    out.op = "filterTicketsByStatus"
    => filterTicketsByStatus(out.value, status) = out.value

\* "closed" has kept one record of three
C11_Witness ==
    /\ out.op = "filterTicketsByStatus"
    /\ status = "closed"
    /\ Len(records) = 3
    /\ Len(out.value) = 1
    /\ filterTicketsByStatus(out.value, status) = out.value

\* the sum of the value fields of a list of entries
RECURSIVE SumValues(_)
SumValues(entries) ==
    IF entries = <<>> THEN 0 ELSE Head(entries).value + SumValues(Tail(entries))

\* C12 - distribution totals: the values of the entries
\* processAssigneeDistribution returns add up to the number of records,
\* every entry counts at least one record and no name appears twice.
C12_DistributionTotals ==
    out.op = "processAssigneeDistribution"
    => /\ SumValues(out.value) = Len(records)
       /\ \A i \in 1..Len(out.value) : out.value[i].value >= 1
       /\ \A i, j \in 1..Len(out.value) :
            out.value[i].name = out.value[j].name => i = j

\* three records in two buckets, one of them "Unassigned"
C12_Witness ==
    /\ out.op = "processAssigneeDistribution"
    /\ Len(records) = 3
    /\ Len(out.value) = 2
    /\ \E i \in 1..2 : out.value[i].name = "Unassigned"

\* the labels in their fixed rank order, and the label of a priority code
C13_Labels == <<"Very High", "High", "Normal", "Low", "Very Low", "Unknown">>
C13_LabelOf(p) == IF p \in 1..5 THEN C13_Labels[p] ELSE "Unknown"

\* the number of records whose priority has the k-th label
C13_Count(k) ==
    Cardinality({i \in 1..Len(records) :
                   C13_LabelOf(records[i].priority) = C13_Labels[k]})

\* C13 - priority distribution order: processPriorityDistribution returns
\* the labels that occur among the records (codes 1..5 are Very High, High,
\* Normal, Low, Very Low, anything else is Unknown), each with its record
\* count, in the order Very High, High, Normal, Low, Very Low, Unknown.
C13_PriorityOrder ==
    out.op = "processPriorityDistribution"
    => Selection(out.value,
                 [k \in 1..6 |-> [name |-> C13_Labels[k], value |-> C13_Count(k)]],
                 {k \in 1..6 : C13_Count(k) > 0})

\* priorities [2, 1, 3, 5] give Very High, High, Normal, Very Low, each 1
C13_Witness ==
    /\ out.op = "processPriorityDistribution"
    /\ [i \in 1..Len(records) |-> records[i].priority] = <<2, 1, 3, 5>>
    /\ out.value = <<[name |-> "Very High", value |-> 1],
                     [name |-> "High", value |-> 1],
                     [name |-> "Normal", value |-> 1],
                     [name |-> "Very Low", value |-> 1]>>

\* the sum of the count fields of a list of entries
RECURSIVE SumCounts(_)
SumCounts(entries) ==
    IF entries = <<>> THEN 0 ELSE Head(entries).count + SumCounts(Tail(entries))

\* the records whose assignee is present and listed in the agent directory
C14_Resolving ==
    {i \in 1..Len(records) :
       /\ records[i].assignee # 0
       /\ \E k \in 1..Len(agents) : agents[k].id = records[i].assignee}

\* C14 - unresolvable assignees: processAssigneeDistribution counts the
\* records whose assignee is absent or not in the agent directory under
\* "Unassigned"; processTopAdministrators has no "Unassigned" entry and
\* its counts add up to at most the number of records whose assignee
\* resolves.
C14_Unassigned ==
    /\ out.op = "processAssigneeDistribution"
       => IF Cardinality(C14_Resolving) = Len(records)
          THEN \A i \in 1..Len(out.value) : out.value[i].name # "Unassigned"
          ELSE \E i \in 1..Len(out.value) :
                 /\ out.value[i].name = "Unassigned"
                 /\ out.value[i].value = Len(records) - Cardinality(C14_Resolving)
    /\ out.op = "processTopAdministrators"
       => /\ \A i \in 1..Len(out.value) : out.value[i].name # "Unassigned"
          /\ SumCounts(out.value) <= Cardinality(C14_Resolving)
          /\ C14_Resolving = {} => out.value = <<>>

\* a ranking over records of which one has no assignee and one an assignee
\* the directory does not list
C14_Witness ==
    /\ out.op = "processTopAdministrators"
    /\ \E i \in 1..Len(records) : records[i].assignee = 0
    /\ \E i \in 1..Len(records) : records[i].assignee = 9
    /\ Len(out.value) = 1
    /\ SumCounts(out.value) = 1

\* the display name the directory dir gives the person id, "" if none
C15_NameOf(dir, id) ==
    IF id # 0 /\ \E k \in 1..Len(dir) : dir[k].id = id
    THEN DisplayName(dir[CHOOSE k \in 1..Len(dir) : dir[k].id = id])
    ELSE ""

\* the number of the ids that resolve to name
C15_CountOf(ids, dir, name) ==
    Cardinality({i \in 1..Len(ids) : C15_NameOf(dir, ids[i]) = name})

\* result is a top-n ranking of the names the ids resolve to
C15_TopN(result, ids, dir, n) ==
    LET names == {C15_NameOf(dir, ids[i]) : i \in 1..Len(ids)} \ {""}
        listed == {result[i].name : i \in 1..Len(result)}
    IN  /\ Len(result) <= n
        /\ listed \subseteq names
        /\ Cardinality(listed) = Len(result)
        /\ \A i \in 1..Len(result) :
             result[i].count = C15_CountOf(ids, dir, result[i].name)
        /\ \A i, j \in 1..Len(result) :
             i < j => result[i].count >= result[j].count
        /\ \A name \in names \ listed :
             /\ Len(result) = n
             /\ \A i \in 1..Len(result) :
                  C15_CountOf(ids, dir, name) <= result[i].count

\* C15 - top-N rankings: processTopAdministrators returns at most 4
\* entries and processTopEndUsers at most 5; each entry's count is the
\* number of records resolving to its name; counts are non-increasing; a
\* name is left out only of a full ranking, and its count is not greater
\* than the count of any name that is included.
C15_TopRankings ==
    /\ out.op = "processTopAdministrators"
       => C15_TopN(out.value, [i \in 1..Len(records) |-> records[i].assignee],
                   agents, 4)
    /\ out.op = "processTopEndUsers"
       => C15_TopN(out.value, [i \in 1..Len(records) |-> records[i].requestUser],
                   endUsers, 5)

\* six end users, the last to appear with two records: the ranking has
\* five entries and that user leads it
C15_Witness ==
    /\ out.op = "processTopEndUsers"
    /\ Len(records) = 7
    /\ records[6].requestUser = 6
    /\ records[7].requestUser = 6
    /\ Len(out.value) = 5
    /\ out.value[1].count = 2
    /\ out.value[5].count = 1

\* the number is exactly 0: not NaN, not Infinity
C16_IsZero(x) == x.num = 0 /\ x.den # 0

\* C16 - division-by-zero guard of /api/tickets/active: when the response
\* is no array or holds no record with status # 34, the handler answers
\* success with totalActive = 0 and overduePercent, openMoreThan5Days and
\* noDueDate exactly 0.
C16_ActiveGuard ==
    (/\ out.op = "active"
     /\ \/ ~out.array
        \/ \A i \in 1..Len(records) : records[i].status = 34)
    => /\ out.value.success = TRUE
       /\ out.value.data.totalActive = 0
       /\ C16_IsZero(out.value.data.overduePercent)
       /\ C16_IsZero(out.value.data.openMoreThan5Days)
       /\ C16_IsZero(out.value.data.noDueDate)

\* an array of two closed records, one of them without a due date
C16_Witness ==
    /\ out.op = "active"
    /\ out.array
    /\ Len(records) = 2
    /\ \A i \in 1..2 : records[i].status = 34
    /\ records[1].dueDate = 0
    /\ out.value.data.totalActive = 0
    /\ C16_IsZero(out.value.data.noDueDate)

\* the records the status filter of /api/metrics/weekly keeps ("open" when
\* the parameter is absent) whose updateTime is in [now - 14d, now - 7d)
C17_Baseline ==
    {i \in 1..Len(records) :
       /\ out.array
       /\ IF status \in {"undefined", "open"} THEN records[i].status # 34
          ELSE IF status = "closed" THEN records[i].status = 34
          ELSE TRUE
       /\ records[i].updateTime >= now - 14 * 86400000
       /\ records[i].updateTime < now - 7 * 86400000}

\* C17 - weekly trend without a baseline: when no status-filtered record
\* was updated in [now - 14d, now - 7d), mttr.previousValue and mttr.change
\* are exactly 0; whenever mttr.previousValue is 0, mttr.change is exactly
\* 0; and mttr.change is never the result of a division by 0.
C17_WeeklyNoBaseline ==
    out.op = "weekly"
    => /\ C17_Baseline = {}
          => /\ C16_IsZero(out.value.data.mttr.previousValue)
             /\ C16_IsZero(out.value.data.mttr.change)
       /\ out.value.data.mttr.previousValue.num = 0
          => C16_IsZero(out.value.data.mttr.change)
       /\ out.value.data.mttr.change.den # 0
       /\ out.value.data.meta.previousWeekCount = Cardinality(C17_Baseline)

\* no baseline, and a current week whose mean age is not 0
C17_Witness ==
    /\ out.op = "weekly"
    /\ C17_Baseline = {}
    /\ out.value.data.meta.currentWeekCount = 2
    /\ out.value.data.mttr.value.num > 0
    /\ C16_IsZero(out.value.data.mttr.change)

\* the records the status filter of /api/analytics/overview keeps ("open"
\* when the parameter is absent)
C18_Kept ==
    {i \in 1..Len(records) :
       IF status \in {"undefined", "open"} THEN records[i].status # 34
       ELSE IF status = "closed" THEN records[i].status = 34
       ELSE TRUE}

\* C18 - overview summary: summary.total is the number of records left by
\* the status filter, summary.open and summary.closed count status != 34
\* and status = 34 over all the fetched records whatever the filter, and
\* summary.open + summary.closed is the number of fetched records.
C18_OverviewSummary ==
    (out.op = "overview" /\ out.array)
    => LET summary == out.value.data.summary
       IN  /\ summary.total = Cardinality(C18_Kept)
           /\ summary.open
              = Cardinality({i \in 1..Len(records) : records[i].status # 34})
           /\ summary.closed
              = Cardinality({i \in 1..Len(records) : records[i].status = 34})
           /\ summary.open + summary.closed = Len(records)

\* statuses [1, 34, 1] with the filter "open": total 2, open 2, closed 1
C18_Witness ==
    /\ out.op = "overview"
    /\ out.array
    /\ status = "open"
    /\ Len(records) = 3
    /\ records[1].status = 1 /\ records[2].status = 34 /\ records[3].status = 1
    /\ out.value.data.summary = [total |-> 2, open |-> 2, closed |-> 1]

\* the bucket a record is counted in, and the position of the first record
\* counted in a bucket
C19_Bucket(i) ==
    IF Resolves(LookupMap(agents), records[i].assignee)
    THEN Lookup(LookupMap(agents), records[i].assignee)
    ELSE "Unassigned"

C19_First(name) ==
    CHOOSE i \in 1..Len(records) :
      /\ C19_Bucket(i) = name
      /\ \A j \in 1..(i - 1) : C19_Bucket(j) # name

\* C19 - assignee distribution order: the entries processAssigneeDistribution
\* returns are in non-increasing order of value, and entries of equal value
\* are in the order in which their names were first met in the records,
\* whatever the display names of the agent directory.
C19_AssigneeOrder ==
    out.op = "processAssigneeDistribution"
    => \A i, j \in 1..Len(out.value) :
         i < j
         => /\ out.value[i].value >= out.value[j].value
            /\ out.value[i].value = out.value[j].value
               => C19_First(out.value[i].name) < C19_First(out.value[j].name)

\* C20 - cache pair consistency: in every reachable state tokenCache.token
\* and tokenCache.expiresAt are both null, no acquisition having succeeded,
\* or both come from the response of one acquisition, the last that
\* succeeded: the token it returned and the expiry computed from its
\* expiresIn at the time it arrived.
C20_CachePair ==
    \/ /\ tokenCache.token = NullToken
       /\ tokenCache.expiresAt = NullExpiry
       /\ lastAcq.token = NullToken
    \/ /\ tokenCache.token # NullToken
       /\ tokenCache.expiresAt # NullExpiry
       /\ tokenCache.token = lastAcq.token
       /\ tokenCache.expiresAt - lastAcq.at = (lastAcq.expiresIn - 300) * 1000

\* invocation 1 acquired a token, then invocation 2's acquisition, with
\* another lifetime, replaced both fields of the cache
C20_Witness ==
    /\ calls[1].pc = "awaitData"
    /\ tokenCache.token = 2
    /\ lastAcq.token = 2
    /\ lastAcq.expiresIn = 400
    /\ tokenCache.expiresAt = lastAcq.at + 100 * 1000

\* the token POSTs a step sends
C21_Posts == {m \in wire' : m.kind = "POST"}

\* C21 - cold-cache fan-out: when GET /api/analytics/overview starts while
\* the cache is empty or expired, its three callConnect invocations all
\* look at the cache in that step, before any acquisition response, so the
\* step sends exactly three token POSTs, one per invocation, and no GET;
\* token POSTs are sent only by invocations that start, never later, so
\* the request issues three acquisitions in all.
C21_Step ==
    /\ \A r \in ReqIds :
         (/\ Started(r)
          /\ reqs'[r].route = "overview"
          /\ \/ tokenCache.token = NullToken
             \/ now >= tokenCache.expiresAt)
         => /\ Cardinality(StartedCalls) = 3
            /\ StartedCalls = {reqs'[r].calls[i] : i \in 1..3}
            /\ wire' = C21_Posts
            /\ Cardinality(C21_Posts) = 3
            /\ {m.call : m \in C21_Posts} = StartedCalls
            /\ \A c \in StartedCalls : calls'[c].pc = "awaitToken"
            /\ tokenCache' = tokenCache
    /\ \A m \in C21_Posts : m.call \in StartedCalls

C21_ColdFanOut == [][C21_Step]_vars

\* /api/analytics/overview has just started on a cache whose token has
\* expired: three token POSTs are on their way
C21_Witness ==
    /\ tokenCache.token # NullToken
    /\ now >= tokenCache.expiresAt
    /\ \E r \in ReqIds : reqs[r].st = "pending" /\ reqs[r].route = "overview"
    /\ Cardinality({m \in wire : m.kind = "POST"}) = 3

====
